---- MODULE Spec2Model ----
(***************************************************************************)
(* A model of jasmin.queues.factory.AmqpFactory: the AMQP client factory   *)
(* that connects to the broker, runs the handshake (authenticate, get a    *)
(* channel, open it), reconnects, and guards queue_declare / publish.      *)
(*                                                                         *)
(* Every handler runs to completion on the reactor thread, so each one is  *)
(* one atomic action.  A handler that raises keeps the assignments it made *)
(* before the raise; the exception is recorded in out.exc.                 *)
(*                                                                         *)
(* The transport (reactor and connectors), the broker and AmqpProtocol are *)
(* the environment: a connecting connector connects or fails, a connected  *)
(* one is lost cleanly or not, a handshake deferred fires with a result or *)
(* with a failure, a declaration is confirmed.                             *)
(***************************************************************************)
EXTENDS Naturals, Sequences, FiniteSets, TLC

\* ---------------------------------------------------------------- bounds
MaxConnectors == 2      \* connect() calls of a run (one connector each)
MaxDeclares == 2        \* declarations of one run that are unconfirmed or recorded
MaxDelay == 1           \* largest config.reconnectOnConnectionFailureDelay
MaxPending == 2         \* unfired deferreds of one handshake step on one connector

\* ------------------------------------------------------ program constants
MAX_RETRIES == 5

Connectors == 1..MaxConnectors
NoConnector == 0
QueueNames == {"orders", "billing"}

\* str(reason) of the Failure the transport hands to the factory, as the
\* sequence of its parts: the exception's name, then its message.
LostReasons == {<<"ConnectionDone", "Connection was closed cleanly.">>,
                <<"ConnectionLost", "Connection to the other side was lost in a non-clean fashion.">>}

FailedReasons == {<<"ConnectionRefusedError", "Connection was refused by other side.">>,
                  <<"TimeoutError", "User timeout caused connection failure.">>}

NoReason == <<>>

\* The handshake deferreds: login, channel request, channel open.
HandshakeSteps == {"auth", "chan", "open"}

\* 'Connection was closed cleanly.' == str(reason): the whole text compared
ClosedCleanly_WholeText(reason) == reason = <<"Connection was closed cleanly.">>

\* 'Connection was closed cleanly.' in str(reason)
ClosedCleanly(reason) ==
    \E i \in DOMAIN reason : reason[i] = "Connection was closed cleanly."

\* 2**n
RECURSIVE Pow2(_)
Pow2(n) == IF n = 0 THEN 1 ELSE 2 * Pow2(n - 1)

VARIABLES
    reconnectTimer,    \* self.reconnectTimer: [state, delay, connector]
    connectionRetry,   \* self.connectionRetry
    connected,         \* self.connected
    channelReady,      \* self.channelReady: "None" | "False" | "pending" | "called"
    exitDeferred,      \* self.exitDeferred: "Unset" | "pending" | "called"
    connectDeferred,   \* self.connectDeferred: "Unset" | "pending" | "called" | "failed"
    retriesSet,        \* whether the attribute self.retries exists
    retries,           \* self.retries (meaningful when retriesSet)
    queues,            \* self.queues
    client,            \* self.client: the connector whose protocol it is, or NoConnector
    chan,              \* self.chan: the connector whose channel it is, or NoConnector
    config,            \* config.reconnectOnConnectionFailureDelay
    conn,              \* the transport: each connector's state
    pending,           \* handshake deferreds not yet fired, counted per <<step, connector>>
    inflight,          \* queue_declare calls not yet confirmed, per connector and queue
    closing,           \* connectors whose protocol was asked to close
    disconnectCalled,  \* disconnect() was called and connect() was not called since
    chanLive,          \* the connection that carries the channel in self.chan is up
    out                \* what the last handler returned, logged and raised

vars == <<reconnectTimer, connectionRetry, connected, channelReady, exitDeferred,
          connectDeferred, retriesSet, retries, queues, client, chan, config,
          conn, pending, inflight, closing, disconnectCalled, chanLive, out>>

factoryVars == <<reconnectTimer, connectionRetry, connected, channelReady, exitDeferred,
                 connectDeferred, retriesSet, retries, queues, client, chan, config>>

NoTimer == [state |-> "None", delay |-> 0, connector |-> NoConnector]

\* No handshake deferred is waiting.
NoPending == [k \in HandshakeSteps \X Connectors |-> 0]

\* One more deferred of step k[1] waits on connector k[2]; one of them fired;
\* the connection of connector c is gone and its deferreds never fire.
Requested(p, k) == [p EXCEPT ![k] = @ + 1]

Fired(p, k) == [p EXCEPT ![k] = @ - 1]

Dropped(p, c) == [k \in DOMAIN p |-> IF k[2] = c THEN 0 ELSE p[k]]

\* What a handler leaves to observe: its name, the queue name or the reason
\* it was given, what it returned, what it logged, what it raised, and the
\* names it removed from self.queues.
Out(op, arg, ret, log, exc) ==
    [op |-> op, arg |-> arg, reason |-> NoReason, ret |-> ret, log |-> log,
     exc |-> exc, removed |-> {}]

OutEvent(op, reason, ret, log, exc) ==
    [op |-> op, arg |-> "", reason |-> reason, ret |-> ret, log |-> log,
     exc |-> exc, removed |-> {}]

\* AmqpFactory.__init__: self.retries and the three deferreds other than
\* channelReady are not assigned.
Init ==
    /\ reconnectTimer = NoTimer
    /\ connectionRetry = TRUE
    /\ connected = FALSE
    /\ channelReady = "None"
    /\ exitDeferred = "Unset"
    /\ connectDeferred = "Unset"
    /\ retriesSet = FALSE
    /\ retries = 0
    /\ queues = <<>>
    /\ client = NoConnector
    /\ chan = NoConnector
    /\ config \in 1..MaxDelay
    /\ conn = [c \in Connectors |-> "unused"]
    /\ pending = NoPending
    /\ inflight = [c \in Connectors |-> [q \in QueueNames |-> 0]]
    /\ closing = {}
    /\ disconnectCalled = FALSE
    /\ chanLive = FALSE
    /\ out = Out("__init__", "", "None", "", "none")

\* ------------------------------------------------------------ preConnect
\* The values preConnect leaves in channelReady and connectDeferred.
PreConnect_channelReady ==
    IF channelReady = "None" THEN "pending" ELSE channelReady

PreConnect_connectDeferred ==
    IF connectDeferred = "Unset" THEN "pending"
    ELSE IF connectDeferred \in {"called", "failed"} THEN "pending"
    ELSE connectDeferred

PreConnect ==
    /\ connectionRetry' = TRUE
    /\ exitDeferred' = "pending"
    /\ channelReady' = PreConnect_channelReady
    /\ connectDeferred' = PreConnect_connectDeferred
    /\ out' = Out("preConnect", "", "None", "", "none")
    /\ UNCHANGED <<reconnectTimer, connected, retriesSet, retries, queues, client,
                   chan, config, conn, pending, inflight, closing, disconnectCalled, chanLive>>

\* ---------------------------------------------------- _connect / connect
\* reactor.connectTCP creates a connector and starts it; the local
\* connect_deferred is fired with a lambda as its result and has no callback,
\* so preConnect is not run.  connect then reads self.connectDeferred.
\* _connect logs 'Establishing TCP connection to %s:%d' first; the connector
\* it starts calls startedConnecting, which logs 'Connecting to %s ...'.
Connect(c) ==
    /\ conn[c] = "unused"
    /\ \A d \in Connectors : d < c => conn[d] # "unused"
    /\ conn' = [conn EXCEPT ![c] = "connecting"]
    /\ out' = IF connectDeferred = "Unset"
              THEN Out("connect", "", "raised", "Establishing TCP connection", "AttributeError")
              ELSE Out("connect", "", connectDeferred, "Establishing TCP connection", "none")
    /\ disconnectCalled' = FALSE
    /\ UNCHANGED <<factoryVars, pending, inflight, closing, chanLive>>

\* --------------------------------------------------------- the handshake
\* authenticate: self.client.start(...) returns a deferred with _authenticated
\* and _authentication_failed attached.
Authenticate(cl) == <<"auth", cl>>

\* What AmqpProtocol.connectionMade raises when it fires
\* factory.connectDeferred with the protocol.
ConnectionMade_exc ==
    IF connectDeferred = "Unset" THEN "AttributeError"
    ELSE IF connectDeferred # "pending" THEN "AlreadyCalledError"
    ELSE "none"

\* an unclean loss that runs preConnect and leaves the connector alone
LostUnclean_Waits(c) ==
    /\ connected' = FALSE
    /\ connectionRetry' = TRUE
    /\ exitDeferred' = "pending"
    /\ channelReady' = PreConnect_channelReady
    /\ connectDeferred' = PreConnect_connectDeferred
    /\ conn' = [conn EXCEPT ![c] = "disconnected"]

\* reConnect(connector) after an unclean loss: preConnect, then
\* connector.connect() on the connector, which the transport has already
\* marked disconnected.
LostUnclean(c) ==
    /\ connected' = FALSE
    /\ connectionRetry' = TRUE
    /\ exitDeferred' = "pending"
    /\ channelReady' = PreConnect_channelReady
    /\ connectDeferred' = PreConnect_connectDeferred
    /\ conn' = [conn EXCEPT ![c] = "connecting"]

\* The transport connected: buildProtocol stores the new protocol in
\* self.client, then the protocol's connectionMade fires connectDeferred,
\* whose callback is authenticate.  An exception that escapes connectionMade
\* makes the reactor drop the connection at once, with the exception as the
\* reason: clientConnectionLost takes its unclean branch in the same turn.
TransportConnected(c) ==
    /\ conn[c] = "connecting"
    /\ client' = c
    /\ IF ConnectionMade_exc = "none"
       THEN /\ conn' = [conn EXCEPT ![c] = "connected"]
            /\ connectDeferred' = "called"
            /\ pending' = Requested(pending, Authenticate(c))
            /\ UNCHANGED <<connected, connectionRetry, exitDeferred, channelReady>>
       ELSE /\ LostUnclean(c)
            /\ pending' = pending
    /\ out' = Out("buildProtocol", "", "protocol",
                  IF ConnectionMade_exc = "none" THEN "" ELSE "Connection lost",
                  ConnectionMade_exc)
    /\ UNCHANGED <<reconnectTimer, retriesSet, retries, queues, chan, config,
                   inflight, closing, disconnectCalled, chanLive>>

\* _authenticated: asks self.client for channel 1, each time it runs.
Authenticated(c) ==
    /\ pending[<<"auth", c>>] > 0
    /\ conn[c] = "connected"
    /\ IF conn[client] = "connected"
       THEN /\ Fired(pending, <<"auth", c>>)[<<"chan", client>>] < MaxPending
            /\ pending' = Requested(Fired(pending, <<"auth", c>>), <<"chan", client>>)
       ELSE pending' = Fired(pending, <<"auth", c>>)
    /\ out' = Out("_authenticated", "", "None", "Successfull authentication", "none")
    /\ UNCHANGED <<factoryVars, conn, inflight, closing, disconnectCalled, chanLive>>

\* _got_channel without self.queues = []
GotChannel_KeepsQueues(c) ==
    /\ pending[<<"chan", c>>] > 0
    /\ conn[c] = "connected"
    /\ pending[<<"open", c>>] < MaxPending
    /\ chan' = c
    /\ chanLive' = TRUE
    /\ pending' = Requested(Fired(pending, <<"chan", c>>), <<"open", c>>)
    /\ out' = Out("_got_channel", "", "None", "Got channel", "none")
    /\ UNCHANGED <<reconnectTimer, connectionRetry, connected, channelReady,
                   exitDeferred, connectDeferred, retriesSet, retries, queues,
                   client, config, conn, inflight, closing, disconnectCalled>>

\* _got_channel: stores the channel, empties self.queues, opens the channel,
\* each time it runs.
GotChannel(c) ==
    /\ pending[<<"chan", c>>] > 0
    /\ conn[c] = "connected"
    /\ pending[<<"open", c>>] < MaxPending
    /\ chan' = c
    /\ queues' = <<>>
    /\ chanLive' = TRUE
    /\ pending' = Requested(Fired(pending, <<"chan", c>>), <<"open", c>>)
    /\ out' = [Out("_got_channel", "", "None", "Got channel", "none")
                EXCEPT !.removed = {queues[i] : i \in 1..Len(queues)}]
    /\ UNCHANGED <<reconnectTimer, connectionRetry, connected, channelReady,
                   exitDeferred, connectDeferred, retriesSet, retries, client,
                   config, conn, inflight, closing, disconnectCalled>>

\* What self.channelReady.callback(self) raises.
ChannelReady_exc ==
    IF channelReady \in {"None", "False"} THEN "AttributeError"
    ELSE IF channelReady = "called" THEN "AlreadyCalledError"
    ELSE "none"

\* _channel_open: sets the connected flag, then fires channelReady.  It runs
\* as a callback of the channel_open deferred, so an exception it raises goes
\* to the errback added after it, _channel_open_failed, which logs it.
ChannelOpen(c) ==
    /\ pending[<<"open", c>>] > 0
    /\ conn[c] = "connected"
    /\ pending' = Fired(pending, <<"open", c>>)
    /\ connected' = TRUE
    /\ channelReady' = IF ChannelReady_exc = "none" THEN "called" ELSE channelReady
    /\ out' = Out("_channel_open", "", "None",
                  IF ChannelReady_exc = "none" THEN "The channel is open"
                  ELSE "Channel open failed",
                  ChannelReady_exc)
    /\ UNCHANGED <<reconnectTimer, connectionRetry, exitDeferred, connectDeferred,
                   retriesSet, retries, queues, client, chan, config, conn,
                   inflight, closing, disconnectCalled, chanLive>>

\* The three errbacks only log.
HandshakeErrback(step, c, op) ==
    /\ pending[<<step, c>>] > 0
    /\ conn[c] = "connected"
    /\ pending' = Fired(pending, <<step, c>>)
    /\ out' = Out(op, "", "None", "error", "none")
    /\ UNCHANGED <<factoryVars, conn, inflight, closing, disconnectCalled, chanLive>>

AuthenticationFailed(c) == HandshakeErrback("auth", c, "_authentication_failed")

GotChannelFailed(c) == HandshakeErrback("chan", c, "_got_channel_failed")

ChannelOpenFailed(c) == HandshakeErrback("open", c, "_channel_open_failed")

\* ------------------------------------------------------ failure and loss
\* What self.connectDeferred.errback(reason) raises.
ConnectErrback_exc ==
    IF connectDeferred = "Unset" THEN "AttributeError"
    ELSE IF connectDeferred # "pending" THEN "AlreadyCalledError"
    ELSE "none"

\* What self.exitDeferred.callback(self) raises.
ExitCallback_exc ==
    IF exitDeferred = "Unset" THEN "AttributeError"
    ELSE IF exitDeferred = "called" THEN "AlreadyCalledError"
    ELSE "none"

\* clientConnectionFailed, called by the connector once it is disconnected.
ClientConnectionFailed(c, reason) ==
    /\ conn[c] = "connecting"
    /\ conn' = [conn EXCEPT ![c] = "disconnected"]
    /\ connected' = FALSE
    /\ IF reconnectTimer.state = "active"
       THEN /\ out' = OutEvent("clientConnectionFailed", reason, "None", "error", "none")
            /\ UNCHANGED <<reconnectTimer, retries, connectDeferred, exitDeferred>>
       ELSE IF ~retriesSet
       THEN \* self.retries += 1 reads an attribute that was never assigned
            /\ out' = OutEvent("clientConnectionFailed", reason, "raised", "error", "AttributeError")
            /\ UNCHANGED <<reconnectTimer, retries, connectDeferred, exitDeferred>>
       ELSE IF retries + 1 >= MAX_RETRIES
       THEN /\ retries' = retries + 1
            /\ reconnectTimer' = reconnectTimer
            /\ IF ConnectErrback_exc # "none"
               THEN /\ out' = OutEvent("clientConnectionFailed", reason, "raised", "abort", ConnectErrback_exc)
                    /\ UNCHANGED <<connectDeferred, exitDeferred>>
               ELSE /\ connectDeferred' = "failed"
                    /\ exitDeferred' = IF ExitCallback_exc = "none" THEN "called" ELSE exitDeferred
                    /\ out' = OutEvent("clientConnectionFailed", reason,
                                       IF ExitCallback_exc = "none" THEN "None" ELSE "raised",
                                  "abort", ExitCallback_exc)
       ELSE /\ retries' = retries + 1
            /\ reconnectTimer' = [state |-> "active",
                                  delay |-> Pow2(retries + 1) * config,
                                  connector |-> c]
            /\ out' = OutEvent("clientConnectionFailed", reason, "None", "error", "none")
            /\ UNCHANGED <<connectDeferred, exitDeferred>>
    /\ UNCHANGED <<connectionRetry, channelReady, retriesSet, queues, client, chan,
                   config, pending, inflight, closing, disconnectCalled, chanLive>>

\* clientConnectionLost, called by the connector once it is disconnected.  The
\* deferreds of the lost protocol never fire afterwards; self.chan is not
\* reset and keeps the channel of the lost connection.  An unclean loss runs
\* reConnect at once: preConnect, then connector.connect().
ClientConnectionLost(c, reason) ==
    /\ conn[c] = "connected"
    /\ pending' = Dropped(pending, c)
    /\ inflight' = [inflight EXCEPT ![c] = [q \in QueueNames |-> 0]]
    /\ closing' = closing \ {c}
    /\ chanLive' = IF chan = c THEN FALSE ELSE chanLive
    /\ IF ~ClosedCleanly(reason)
       THEN /\ LostUnclean(c)
            /\ out' = OutEvent("clientConnectionLost", reason, "None", "error", "none")
       ELSE /\ connected' = FALSE
            /\ exitDeferred' = IF ExitCallback_exc = "none" THEN "called" ELSE exitDeferred
            /\ conn' = [conn EXCEPT ![c] = "disconnected"]
            /\ out' = OutEvent("clientConnectionLost", reason,
                          IF ExitCallback_exc = "none" THEN "None" ELSE "raised",
                          IF ExitCallback_exc = "none" THEN "Exiting." ELSE "",
                          ExitCallback_exc)
            /\ UNCHANGED <<connectionRetry, channelReady, connectDeferred>>
    /\ UNCHANGED <<reconnectTimer, retriesSet, retries, queues, client, chan,
                   config, disconnectCalled>>

\* The reconnect timer fires: reConnect(connector).
ReConnect ==
    /\ reconnectTimer.state = "active"
    /\ reconnectTimer' = [reconnectTimer EXCEPT !.state = "done"]
    /\ connectionRetry' = TRUE
    /\ exitDeferred' = "pending"
    /\ channelReady' = PreConnect_channelReady
    /\ connectDeferred' = PreConnect_connectDeferred
    /\ IF conn[reconnectTimer.connector] = "disconnected"
       THEN /\ conn' = [conn EXCEPT ![reconnectTimer.connector] = "connecting"]
            /\ out' = Out("reConnect", "", "None", "Connecting to", "none")
       ELSE /\ conn' = conn
            /\ out' = Out("reConnect", "", "raised", "", "RuntimeError")
    /\ UNCHANGED <<connected, retriesSet, retries, queues, client, chan, config,
                   pending, inflight, closing, disconnectCalled, chanLive>>

\* ------------------------------------------------------------ disconnect
Disconnect ==
    /\ channelReady' = "False"
    /\ IF client # NoConnector
       THEN /\ closing' = IF conn[client] = "connected" THEN closing \cup {client} ELSE closing
            /\ out' = Out("disconnect", "", "closeDeferred", "", "none")
       ELSE /\ closing' = closing
            /\ out' = Out("disconnect", "", "None", "", "none")
    /\ disconnectCalled' = TRUE
    /\ UNCHANGED <<reconnectTimer, connectionRetry, connected, exitDeferred,
                   connectDeferred, retriesSet, retries, queues, client, chan,
                   config, conn, pending, inflight, chanLive>>

\* ------------------------------------- named_queue_declare and publish
\* Declarations the broker has not confirmed yet, over all connectors.
RECURSIVE SumOver(_, _)
SumOver(f, S) ==
    IF S = {} THEN 0
    ELSE LET x == CHOOSE y \in S : TRUE IN f[x] + SumOver(f, S \ {x})

Unconfirmed ==
    SumOver([p \in Connectors \X QueueNames |-> inflight[p[1]][p[2]]],
            Connectors \X QueueNames)

InQueues(q) == \E i \in 1..Len(queues) : queues[i] = q

NamedQueueDeclare(q) ==
    /\ IF ~connected
       THEN /\ out' = Out("named_queue_declare", q, "None", "not connected", "none")
            /\ UNCHANGED inflight
       ELSE IF InQueues(q)
       THEN /\ out' = Out("named_queue_declare", q, "None", "already declared", "none")
            /\ UNCHANGED inflight
       ELSE /\ Len(queues) + Unconfirmed < MaxDeclares
            /\ inflight' = IF chanLive
                           THEN [inflight EXCEPT ![chan][q] = @ + 1]
                           ELSE inflight
            /\ out' = Out("named_queue_declare", q, "Deferred", "", "none")
    /\ UNCHANGED <<factoryVars, conn, pending, closing, disconnectCalled, chanLive>>

\* _queue_declared: the broker confirmed a declaration made on connector c.
QueueDeclared(c, q) ==
    /\ inflight[c][q] > 0
    /\ conn[c] = "connected"
    /\ inflight' = [inflight EXCEPT ![c][q] = @ - 1]
    /\ queues' = Append(queues, q)
    /\ out' = Out("_queue_declared", q, "None", "declared", "none")
    /\ UNCHANGED <<reconnectTimer, connectionRetry, connected, channelReady,
                   exitDeferred, connectDeferred, retriesSet, retries, client,
                   chan, config, conn, pending, closing, disconnectCalled, chanLive>>

\* publish without the check of self.connected
Publish_Unguarded ==
    /\ out' = Out("publish", "", "publishResult", "", "none")
    /\ UNCHANGED <<factoryVars, conn, pending, inflight, closing, disconnectCalled, chanLive>>

Publish ==
    /\ IF ~connected
       THEN out' = Out("publish", "", "None", "not connected", "none")
       ELSE out' = Out("publish", "", "publishResult", "", "none")
    /\ UNCHANGED <<factoryVars, conn, pending, inflight, closing, disconnectCalled, chanLive>>

\* ------------------------------------------------- stopConnectionRetrying
StopRetrying_timer ==
    IF reconnectTimer.state = "active" THEN NoTimer ELSE reconnectTimer

StopConnectionRetrying ==
    /\ reconnectTimer' = StopRetrying_timer
    /\ connectionRetry' = FALSE
    /\ out' = Out("stopConnectionRetrying", "", "None", "", "none")
    /\ UNCHANGED <<connected, channelReady, exitDeferred, connectDeferred,
                   retriesSet, retries, queues, client, chan, config, conn,
                   pending, inflight, closing, disconnectCalled, chanLive>>

DisconnectAndDontRetryToConnect ==
    /\ reconnectTimer' = StopRetrying_timer
    /\ connectionRetry' = FALSE
    /\ channelReady' = "False"
    /\ IF client # NoConnector
       THEN /\ closing' = IF conn[client] = "connected" THEN closing \cup {client} ELSE closing
            /\ out' = Out("disconnectAndDontRetryToConnect", "", "closeDeferred", "", "none")
       ELSE /\ closing' = closing
            /\ out' = Out("disconnectAndDontRetryToConnect", "", "None", "", "none")
    /\ disconnectCalled' = TRUE
    /\ UNCHANGED <<connected, exitDeferred, connectDeferred, retriesSet, retries,
                   queues, client, chan, config, conn, pending, inflight, chanLive>>

Next ==
    \/ PreConnect
    \/ \E c \in Connectors : Connect(c)
    \/ \E c \in Connectors : TransportConnected(c)
    \/ \E c \in Connectors : Authenticated(c)
    \/ \E c \in Connectors : AuthenticationFailed(c)
    \/ \E c \in Connectors : GotChannel(c)
    \/ \E c \in Connectors : GotChannelFailed(c)
    \/ \E c \in Connectors : ChannelOpen(c)
    \/ \E c \in Connectors : ChannelOpenFailed(c)
    \/ \E c \in Connectors, reason \in FailedReasons : ClientConnectionFailed(c, reason)
    \/ \E c \in Connectors, reason \in LostReasons : ClientConnectionLost(c, reason)
    \/ Disconnect
    \/ \E q \in QueueNames : NamedQueueDeclare(q)
    \/ \E c \in Connectors, q \in QueueNames : QueueDeclared(c, q)
    \/ Publish
    \/ StopConnectionRetrying
    \/ DisconnectAndDontRetryToConnect

\* The reconnect timer is the only caller of ReConnect.
NextWithTimer ==
    \/ Next
    \/ ReConnect

\* The connection's handlers alone: the runs in which nothing is declared or
\* published.
NextTransport ==
    \/ PreConnect
    \/ \E c \in Connectors : Connect(c)
    \/ \E c \in Connectors : TransportConnected(c)
    \/ \E c \in Connectors : Authenticated(c)
    \/ \E c \in Connectors : AuthenticationFailed(c)
    \/ \E c \in Connectors : GotChannel(c)
    \/ \E c \in Connectors : GotChannelFailed(c)
    \/ \E c \in Connectors : ChannelOpen(c)
    \/ \E c \in Connectors : ChannelOpenFailed(c)
    \/ \E c \in Connectors, reason \in FailedReasons : ClientConnectionFailed(c, reason)
    \/ \E c \in Connectors, reason \in LostReasons : ClientConnectionLost(c, reason)
    \/ Disconnect
    \/ StopConnectionRetrying
    \/ DisconnectAndDontRetryToConnect

Spec == Init /\ [][Next]_vars

SpecWithTimer == Init /\ [][NextWithTimer]_vars

SpecTransport == Init /\ [][NextTransport]_vars

\* self.retries is never assigned, so clientConnectionFailed never reaches
\* reactor.callLater: no timer exists in any reachable state, also when the
\* timer's callback is part of the next-state relation.
NoTimerEver == reconnectTimer = NoTimer /\ ~retriesSet

\* ------------------------------------------------------------- the claims
\* A connector that was not connecting starts a connection attempt.
AttemptStarted == \E c \in Connectors : conn[c] # "connecting" /\ conn'[c] = "connecting"

\* The failures counted so far (none before the counter exists).
FailuresCounted == IF retriesSet THEN retries ELSE 0

\* The spec's Ready state: handshake done and no close requested.
ReadyState == connected /\ closing = {}

\* The reason of a loss says the connection was closed cleanly.
SaysClean(reason) ==
    \E i \in DOMAIN reason : reason[i] = "Connection was closed cleanly."

Occurrences(q, seq) == Cardinality({i \in 1..Len(seq) : seq[i] = q})

\* C1: a connection-failed event that arrives with no reconnect timer
\* pending increments RetryCounter to some k; when k < maxRetries it
\* schedules one reconnect timer with delay baseDelay * 2^k and does not
\* resolve ExitSignal.
C1_BackoffScheduled ==
    [][(out'.op = "clientConnectionFailed" /\ reconnectTimer.state # "active")
        => /\ retriesSet'
           /\ retries' < MAX_RETRIES
                => /\ reconnectTimer'.state = "active"
                   /\ reconnectTimer'.delay = config * Pow2(retries')
                   /\ exitDeferred' = exitDeferred]_vars

\* C2: with baseDelay = 1 and maxRetries = 3, in a run where every attempt
\* fails, the failure that follows n counted failures schedules a timer of
\* 2^n seconds for n = 0, 1, 2 (1, 2, 4 seconds) without exiting, and the
\* 4th failure exits and schedules no timer.
C2_Scenario ==
    [][(out'.op = "clientConnectionFailed" /\ config = 1
          /\ reconnectTimer.state # "active" /\ FailuresCounted <= 3)
        => IF FailuresCounted < 3
           THEN /\ reconnectTimer'.state = "active"
                /\ reconnectTimer'.delay = Pow2(FailuresCounted)
                /\ exitDeferred' # "called"
           ELSE /\ reconnectTimer'.state # "active"
                /\ exitDeferred' = "called"]_vars

\* C4: a declaration of a queue that was already forwarded on the channel of
\* this session, confirmed or not, is answered 'already declared' and
\* forwards nothing; a name is in the registry at most once.
C4_DeclaredOnce ==
    [][\A q \in QueueNames :
          /\ Occurrences(q, queues') <= 1
          /\ (/\ out'.op = "named_queue_declare"
              /\ out'.arg = q
              /\ connected
              /\ (InQueues(q) \/ inflight[chan][q] > 0))
                => /\ out'.log = "already declared"
                   /\ out'.ret = "None"
                   /\ inflight' = inflight]_vars

\* C5 as stated: named_queue_declare and publish called in any state other
\* than Ready, Closing included, return None as not connected, forward
\* nothing and raise nothing.
C5_NotReadyRejected ==
    [][(out'.op \in {"named_queue_declare", "publish"} /\ ~ReadyState)
        => /\ out'.ret = "None"
           /\ out'.log = "not connected"
           /\ out'.exc = "none"
           /\ inflight' = inflight]_vars

\* C5 as amended: named_queue_declare and publish called while the connected
\* flag is false return None as not connected, forward nothing and raise
\* nothing.
C5_NotConnectedRejected ==
    [][(out'.op \in {"named_queue_declare", "publish"} /\ ~connected)
        => /\ out'.ret = "None"
           /\ out'.log = "not connected"
           /\ out'.exc = "none"
           /\ inflight' = inflight]_vars

\* publish() answered None while a connector is still connecting.
C5_Witness ==
    /\ out.op = "publish"
    /\ out.ret = "None"
    /\ out.log = "not connected"
    /\ ~connected
    /\ \E c \in Connectors : conn[c] = "connecting"

\* C6: a clean connection-lost event on a connector the operator asked to
\* close starts no connection attempt and schedules no reconnect timer; the
\* factory is left not connected, with no attempt outstanding and with
\* ExitSignal resolved.
C6_CleanCloseExits ==
    [][\A c \in closing :
          (/\ out'.op = "clientConnectionLost"
           /\ SaysClean(out'.reason)
           /\ conn[c] = "connected" /\ conn'[c] # "connected")
            => /\ ~AttemptStarted
               /\ conn'[c] = "disconnected"
               /\ reconnectTimer'.state # "active"
               /\ ~connected'
               /\ exitDeferred' = "called"]_vars

\* A requested close was confirmed by a clean loss and ExitSignal resolved.
C6_Witness ==
    /\ out.op = "clientConnectionLost"
    /\ SaysClean(out.reason)
    /\ out.exc = "none"
    /\ disconnectCalled
    /\ exitDeferred = "called"
    /\ \A c \in Connectors : conn[c] \in {"unused", "disconnected"}

\* C7: once disconnect() was called, no reconnect timer stays pending and no
\* connection attempt is started until connect() is called again.
C7_DisconnectStopsReconnect ==
    [][/\ (disconnectCalled /\ AttemptStarted) => out'.op = "connect"
       /\ out'.op \in {"disconnect", "disconnectAndDontRetryToConnect"}
            => reconnectTimer'.state # "active"]_vars

\* C8: every entry into Ready resolves the ready signal; resolving it never
\* fails, neither on a signal an earlier session resolved nor on a value
\* that is no signal.
C8_ReadyRearmed ==
    [][out'.op = "_channel_open"
        => /\ out'.exc = "none"
           /\ channelReady # "called"
           /\ channelReady' = "called"]_vars

\* C9: ExitSignal is never resolved a second time, and it is resolved only
\* by a clean connection-lost event or by the failure that exhausts the
\* retries, with no reconnect timer left pending.
C9_ExitOnce ==
    [][/\ out'.op \in {"clientConnectionLost", "clientConnectionFailed"}
            => out'.exc # "AlreadyCalledError"
       /\ (exitDeferred # "called" /\ exitDeferred' = "called")
            => /\ \/ out'.op = "clientConnectionLost" /\ SaysClean(out'.reason)
                  \/ out'.op = "clientConnectionFailed" /\ retries' >= MAX_RETRIES
               /\ reconnectTimer'.state # "active"]_vars

\* C10: connect() starts one attempt, sets RetryCounter to 0 and the retry
\* flag to true, and returns a new unresolved connect future, with fresh
\* ready and exit signals.
C10_FreshLifecycle ==
    [][out'.op = "connect"
        => /\ out'.exc = "none"
           /\ out'.ret = "pending"
           /\ Cardinality({c \in Connectors : conn[c] # "connecting"
                                              /\ conn'[c] = "connecting"}) = 1
           /\ retriesSet' /\ retries' = 0
           /\ connectionRetry'
           /\ connectDeferred' = "pending"
           /\ exitDeferred' = "pending"
           /\ channelReady' = "pending"]_vars

\* No connector is connecting or connected and no reconnect timer is pending:
\* the factory has stopped attempting connections.
StoppedAttempting ==
    /\ \A c \in Connectors : conn[c] \in {"unused", "disconnected"}
    /\ reconnectTimer.state # "active"

\* C11: a connection-failed or connection-lost event that leaves the factory
\* with no attempt outstanding and no reconnect timer pending, while the
\* connect future is unresolved, rejects that future: it is never left
\* pending after the factory stopped for good.
C11_ConnectFutureSettled ==
    [][(/\ out'.op \in {"clientConnectionFailed", "clientConnectionLost"}
        /\ connectDeferred = "pending"
        /\ StoppedAttempting')
        => connectDeferred' = "failed"]_vars

\* C12: while the retry flag is false (stopConnectionRetrying was called) no
\* reconnect timer is pending and no connection attempt is started by
\* anything but connect(), whatever failed or lost event arrives; the flag
\* becomes true again only through connect() (or the preConnect that
\* prepares it).
C12_StopRetryingHolds ==
    [][/\ ~connectionRetry =>
            /\ reconnectTimer.state # "active"
            /\ reconnectTimer'.state = "active" => out'.op = "connect"
            /\ AttemptStarted => out'.op = "connect"
       /\ (~connectionRetry /\ connectionRetry')
            => out'.op \in {"connect", "preConnect"}]_vars

\* C13: a handshake failure (authentication, channel request or channel open
\* rejected) is handled as a transport failure: it counts the failure and
\* leaves a reconnect timer pending, or it exits when the retries are
\* exhausted; the factory is not left waiting in the handshake.
C13_HandshakeFailureRetries ==
    [][out'.op \in {"_authentication_failed", "_got_channel_failed", "_channel_open_failed"}
        => \/ /\ retriesSet'
              /\ retries' = FailuresCounted + 1
              /\ reconnectTimer'.state = "active"
           \/ /\ exitDeferred' = "called"
              /\ connectDeferred' = "failed"]_vars

\* C14: the handshake steps of an attempt come in order.  The login is sent
\* when the transport of that attempt connected; the channel is requested by
\* the acknowledgment of that attempt's login; the channel is opened once it
\* was obtained; the connected flag is raised and the ready signal resolved
\* only by the acknowledgment of the channel open; an attempt never awaits
\* two steps at once.
C14_HandshakeInOrder ==
    [][/\ \A c \in Connectors :
            /\ pending'[<<"auth", c>>] > pending[<<"auth", c>>]
                 => /\ out'.op = "buildProtocol"
                    /\ conn[c] = "connecting" /\ conn'[c] = "connected"
                    /\ client' = c
            /\ pending'[<<"chan", c>>] > pending[<<"chan", c>>]
                 => /\ out'.op = "_authenticated"
                    /\ pending'[<<"auth", c>>] = pending[<<"auth", c>>] - 1
                    /\ conn[c] = "connected"
            /\ pending'[<<"open", c>>] > pending[<<"open", c>>]
                 => /\ out'.op = "_got_channel"
                    /\ pending'[<<"chan", c>>] = pending[<<"chan", c>>] - 1
                    /\ conn[c] = "connected"
       /\ ((~connected /\ connected') \/ (channelReady # "called" /\ channelReady' = "called"))
            => /\ out'.op = "_channel_open"
               /\ chan # NoConnector
               /\ pending[<<"open", chan>>] > 0
               /\ conn[chan] = "connected"
       /\ \A c \in Connectors :
            pending'[<<"auth", c>>] + pending'[<<"chan", c>>] + pending'[<<"open", c>>] <= 1]_vars

\* C15: RetryCounter is 0 right after connect() and right after every entry
\* into Ready, and a connection-failed event that the pending-timer guard
\* lets through adds exactly 1 to it.
C15_CounterResets ==
    [][/\ out'.op \in {"connect", "_channel_open"}
            => retriesSet' /\ retries' = 0
       /\ (out'.op = "clientConnectionFailed" /\ reconnectTimer.state # "active")
            => retriesSet' /\ retries' = FailuresCounted + 1]_vars

\* C16: at most one transport connection attempt is outstanding, whatever
\* the interleaving of connect(), failures and losses.
C16_OneAttempt ==
    Cardinality({c \in Connectors : conn[c] = "connecting"}) <= 1

\* An unclean connection-lost event on a connector that was connected.
UncleanLossOf(c) ==
    /\ out'.op = "clientConnectionLost"
    /\ ~SaysClean(out'.reason)
    /\ conn[c] = "connected"
    /\ conn'[c] # "connected"

\* C18 as stated: an unclean loss in Ready counts a failure and starts no
\* attempt by itself; it leaves a reconnect timer of baseDelay * 2^RetryCounter
\* pending, or exits when the retries are exhausted.
C18_UncleanLossBacksOff ==
    [][\A c \in Connectors :
          (UncleanLossOf(c) /\ connected)
            => /\ ~AttemptStarted
               /\ retriesSet'
               /\ retries' = FailuresCounted + 1
               /\ \/ /\ reconnectTimer'.state = "active"
                     /\ reconnectTimer'.delay = config * Pow2(retries')
                  \/ exitDeferred' = "called"]_vars

\* C18 as amended: an unclean loss starts the next attempt at once, on the
\* same connector, with the signals preConnect renews; it neither counts a
\* failure nor schedules a timer nor resolves ExitSignal.
C18_UncleanLossReconnectsAtOnce ==
    [][\A c \in Connectors :
          UncleanLossOf(c)
            => /\ conn'[c] = "connecting"
               /\ reconnectTimer' = reconnectTimer
               /\ retriesSet' = retriesSet /\ retries' = retries
               /\ ~connected'
               /\ connectionRetry'
               /\ exitDeferred' = "pending"
               /\ connectDeferred' = "pending"]_vars

\* A session that had a declared queue was lost uncleanly and its connector
\* is connecting again, with no timer.
C18_Witness ==
    /\ out.op = "clientConnectionLost"
    /\ ~SaysClean(out.reason)
    /\ client # NoConnector
    /\ conn[client] = "connecting"
    /\ queues # <<>>
    /\ ~connected
    /\ reconnectTimer = NoTimer

\* C19 as stated: the registry is empty in every state that is not Ready, and
\* so while a connector is connecting.
C19_EmptyOutsideReady ==
    (~connected \/ \E c \in Connectors : conn[c] = "connecting") => queues = <<>>

\* C19 as amended: the registry is emptied when the channel of the new
\* session is obtained, and only then: starting an attempt leaves it as it
\* is, and _got_channel leaves it empty.
C19_ClearedOnNewChannel ==
    [][/\ out'.op = "_got_channel" => queues' = <<>>
       /\ Len(queues') < Len(queues) => out'.op = "_got_channel"
       /\ AttemptStarted => queues' = queues]_vars

\* A channel was obtained after a session that had declared queues, and the
\* registry is empty.
C19_Witness ==
    /\ out.op = "_got_channel"
    /\ queues = <<>>
    /\ out.removed # {}
    /\ ~connected

\* C20: declarations do not survive a new session.  The registry is empty
\* when the connected flag is raised, a name enters it only by the
\* confirmation of a declaration forwarded on the current channel, and a
\* name that is not in it is forwarded on the current channel, not answered
\* 'already declared'.
C20_NoStaleDeclarations ==
    [][/\ (~connected /\ connected') => queues' = <<>>
       /\ (queues' # queues /\ queues' # <<>>)
            => /\ out'.op = "_queue_declared"
               /\ chanLive
               /\ inflight[chan][out'.arg] > 0
               /\ inflight' = [inflight EXCEPT ![chan][out'.arg] = @ - 1]
               /\ queues' = Append(queues, out'.arg)
       /\ (/\ out'.op = "named_queue_declare"
           /\ connected /\ chanLive
           /\ ~InQueues(out'.arg))
            => /\ out'.ret = "Deferred"
               /\ out'.log # "already declared"
               /\ inflight' = [inflight EXCEPT ![chan][out'.arg] = @ + 1]]_vars
====
